---------------------------- MODULE Spec2Model ----------------------------
(***************************************************************************)
(* A model of src/main.py ("Psychedelic Interdimensional Pong Overload").  *)
(*                                                                         *)
(* Numbers.  pygame.Rect keeps integer coordinates, and so does the model. *)
(* The floats of the program are kept in fixed point: velocities and the   *)
(* time factor in hundredths (dx = 354 is 3.54 pixels per frame), the combo*)
(* multiplier in tenths (12 is 1.2), the paddle charge in halves, the hue  *)
(* shift in hundredths of a turn.  Assigning a float to a Rect coordinate  *)
(* converts it to int, which truncates toward zero (Trunc).                *)
(*                                                                         *)
(* Left out: the particles, the VisualEffects toggles, the power-up pulse, *)
(* the colours of power-ups and rifts and the element tags, all of which   *)
(* are only read by the draw methods, and the draw methods' output.        *)
(***************************************************************************)
EXTENDS Integers, Sequences, FiniteSets, TLC

VARIABLES
    boot,           \* position of the module-level startup code
    cfgFile,        \* config.json on disk, as open()/json.load will find it
    CONFIG,         \* the module global CONFIG (a function key -> value)
    consts,         \* WIDTH .. ELEMENTS as assigned at lines 28-35
    logged,         \* what logger.error has been given so far
    pc,             \* position of Game.run / Game.update
    running,        \* the local of Game.run
    ticks,          \* number of clock.tick(FPS) calls so far
    colors, shift,  \* COLOR_MANAGER.colors, COLOR_MANAGER.shift
    player_paddle, ai_paddle,
    ball, trail,    \* Ball: rect and velocity and dimension; Ball.trail
    powerups, rifts, score, time_factor, reality_shift

vars == <<boot, cfgFile, CONFIG, consts, logged, pc, running, ticks, colors,
          shift, player_paddle, ai_paddle, ball, trail, powerups, rifts,
          score, time_factor, reality_shift>>

startupVars == <<boot, cfgFile, CONFIG, consts, logged>>
colorVars   == <<colors, shift>>
gameVars    == <<player_paddle, ai_paddle, ball, trail, powerups, rifts,
                 score, time_factor, reality_shift>>

-----------------------------------------------------------------------------
(* Constants of the program (the defaults of lines 28-35) *)

WIDTH == 800
HEIGHT == 600
FPS == 60
PADDLE_WIDTH == 15
PADDLE_HEIGHT == 90
BALL_SIZE == 15
AI_SPEED == 7
ELEMENTS == <<"Fire", "Water", "Earth", "Air", "Void", "Time">>

PLAYER_SPEED == 5          \* rect.y -= 5 / += 5
PLAYER_X == 50             \* Paddle(50, ...)
AI_MARGIN == 50            \* Paddle(WIDTH - 50 - PADDLE_WIDTH, ...)
MAX_CHARGE == 100          \* self.max_charge
BALL_SPEED == 5            \* speed = 5 in Ball.reset
TRAIL_LEN == 20            \* len(self.trail) > 20
POWERUP_SIZE == 20         \* Rect(..., 20, 20)
SPAWN_MARGIN == 100        \* randint(100, WIDTH - 100)
COMBO_STEP == 3            \* combo_meter // 3

PowerUpTypes == {"Multi-ball", "Elemental Lock", "Paddle Growth", "Gravity Shift",
                 "Dimension Hop", "Time Warp", "Reality Bend", "Quantum Tunneling"}

-----------------------------------------------------------------------------
(* Bounds of the model *)

MaxFrames == 80            \* iterations of the loop of Game.run explored
MaxRallyFrames == 1900     \* the same, for the rallies of SpecRally
MaxRunFrames == 40         \* the same, for SpecRun
MaxPickupFrames == 70      \* the same, for SpecPickups
MaxPowerups == 1           \* live power-ups at a time
MaxRifts == 1              \* rifts at a time
MaxUpdates == 6            \* COLOR_MANAGER.update calls explored on their own

-----------------------------------------------------------------------------
(* Arithmetic *)

Trunc(a, b) == IF a >= 0 THEN a \div b ELSE -((-a) \div b)
Min(a, b) == IF a <= b THEN a ELSE b
Max(a, b) == IF a >= b THEN a ELSE b


-----------------------------------------------------------------------------
(* Rectangles: pygame.Rect(x, y, w, h) *)

CenterOf(x, y, w, h) == <<x + w \div 2, y + h \div 2>>

\* Rect.colliderect for rectangles of positive size
CollideRect(ax, ay, aw, ah, bx, by, bw, bh) ==
    /\ ax < bx + bw
    /\ bx < ax + aw
    /\ ay < by + bh
    /\ by < ay + ah

-----------------------------------------------------------------------------
(* Color and DynamicColorManager.  A Color is <<r, g, b>>.  The conversions  *)
(* of colorsys are computed in exact rational arithmetic on the channels:    *)
(* with mx, mn the largest and smallest channel and d = mx - mn, the hue is  *)
(* HueSixths(c) / (6 d) of a turn.  (Float rounding, which can move a channel*)
(* by one unit, is not modelled.)                                            *)

ElementSet == {ELEMENTS[i] : i \in 1..Len(ELEMENTS)}

Max3(c) == Max(c[1], Max(c[2], c[3]))
Min3(c) == Min(c[1], Min(c[2], c[3]))

\* colorsys.rgb_to_hsv: 6 d h, for d > 0
HueSixths(c) ==
    LET mx == Max3(c)
        d  == mx - Min3(c)
        h6 == IF c[1] = mx THEN c[2] - c[3]
              ELSE IF c[2] = mx THEN 2 * d + (c[3] - c[1])
              ELSE 4 * d + (c[1] - c[2])
    IN  h6 % (6 * d)

\* lines 58-61 for one colour, with self.shift = k hundredths
ShiftColor(c, k) ==
    LET mx == Max3(c)
        mn == Min3(c)
        d  == mx - mn
    IN  IF d = 0 THEN c                   \* s = 0: hsv_to_rgb returns v, v, v
        ELSE
          LET n  == (100 * HueSixths(c) + 6 * d * k) % (600 * d)   \* h = n / (600 d)
              i  == n \div (100 * d)                               \* int(h * 6)
              fn == n % (100 * d)                                  \* f = fn / (100 d)
              p  == mn                                             \* int(v (1 - s) 255)
              q  == (100 * mx - fn) \div 100                       \* int(v (1 - s f) 255)
              t  == (100 * mn + fn) \div 100                       \* int(v (1 - s (1 - f)) 255)
          IN  CASE i = 0 -> <<mx, t, p>>
                [] i = 1 -> <<q, mx, p>>
                [] i = 2 -> <<p, mx, t>>
                [] i = 3 -> <<p, q, mx>>
                [] i = 4 -> <<t, p, mx>>
                [] OTHER -> <<mx, p, q>>

\* DynamicColorManager.update: the new shift and the new colours
ColorManagerUpdate(cs, sh) ==
    [shift |-> sh + 1, colors |-> [e \in ElementSet |-> ShiftColor(cs[e], sh + 1)]]


-----------------------------------------------------------------------------
(* Startup: load_config (lines 17-23), CONFIG and the constants (25-35),     *)
(* and the main block (395-400).                                             *)

ConfigKeys == {"WIDTH", "HEIGHT", "FPS", "PADDLE_WIDTH", "PADDLE_HEIGHT",
               "BALL_SIZE", "AI_SPEED", "ELEMENTS"}

\* the second argument of each CONFIG.get
Defaults ==
    [k \in ConfigKeys |->
        CASE k = "WIDTH" -> WIDTH
          [] k = "HEIGHT" -> HEIGHT
          [] k = "FPS" -> FPS
          [] k = "PADDLE_WIDTH" -> PADDLE_WIDTH
          [] k = "PADDLE_HEIGHT" -> PADDLE_HEIGHT
          [] k = "BALL_SIZE" -> BALL_SIZE
          [] k = "AI_SPEED" -> AI_SPEED
          [] OTHER -> ELEMENTS]

\* a value a settings file may give for a key, other than the default
Override ==
    [k \in ConfigKeys |->
        CASE k = "WIDTH" -> 640
          [] k = "HEIGHT" -> 480
          [] k = "FPS" -> 30
          [] k = "PADDLE_WIDTH" -> 10
          [] k = "PADDLE_HEIGHT" -> 60
          [] k = "BALL_SIZE" -> 10
          [] k = "AI_SPEED" -> 5
          [] OTHER -> <<"Fire", "Water">>]

EmptyConfig == [k \in {} |-> 0]          \* the dict {}

\* config.json as the process finds it: absent; present but open() fails
\* (PermissionError, IsADirectoryError); present but not JSON
\* (json.JSONDecodeError); or a JSON object overriding some of the keys
ConfigFiles ==
    {[kind |-> "missing", content |-> EmptyConfig],
     [kind |-> "unopenable", content |-> EmptyConfig],
     [kind |-> "unparsable", content |-> EmptyConfig]}
    \cup {[kind |-> "valid", content |-> [k \in ks |-> Override[k]]] :
             ks \in SUBSET ConfigKeys}

\* load_config: what it returns, or the exception that leaves it.  Only
\* FileNotFoundError has a handler.
load_config(file) ==
    CASE file.kind = "valid" -> [raised |-> "none", result |-> file.content, log |-> {}]
      [] file.kind = "missing" ->
            [raised |-> "none", result |-> EmptyConfig,
             log |-> {"Config file not found. Using default settings."}]
      [] file.kind = "unopenable" ->
            [raised |-> "OSError", result |-> EmptyConfig, log |-> {}]
      [] OTHER ->
            [raised |-> "JSONDecodeError", result |-> EmptyConfig, log |-> {}]

\* CONFIG.get(k, default)
ConfigGet(cfg, k) == IF k \in DOMAIN cfg THEN cfg[k] ELSE Defaults[k]

\* line 25: CONFIG = load_config(); an exception here is at module level,
\* outside every try, and ends the process
LoadConfig ==
    /\ boot = "load_config"
    /\ LET r == load_config(cfgFile)
       IN  /\ logged' = logged \cup r.log
           /\ IF r.raised = "none"
                 THEN /\ CONFIG' = r.result
                      /\ boot' = "constants"
                 ELSE /\ CONFIG' = CONFIG
                      /\ boot' = "terminated"
    /\ UNCHANGED <<cfgFile, consts, pc, running, ticks, colorVars, gameVars>>

\* lines 28-35
AssignConstants ==
    /\ boot = "constants"
    /\ consts' = [k \in ConfigKeys |-> ConfigGet(CONFIG, k)]
    /\ boot' = "main"
    /\ UNCHANGED <<cfgFile, CONFIG, logged, pc, running, ticks, colorVars, gameVars>>

\* lines 396-398: Game() and the entry into game.run()
StartGame ==
    /\ boot = "main"
    /\ boot' = "game_loop"
    /\ UNCHANGED <<cfgFile, CONFIG, consts, logged, pc, running, ticks, colorVars,
                   gameVars>>


-----------------------------------------------------------------------------
(* The environment of the game: what random and the keyboard may give.      *)

\* pygame.key.get_pressed(): K_w, K_s, K_LSHIFT
KeyStates == [w : BOOLEAN, s : BOOLEAN, shift : BOOLEAN]
MoveKeys  == {k \in KeyStates : ~k.shift}
NoKeys    == {k \in KeyStates : ~k.w /\ ~k.s /\ ~k.shift}
ShiftKeys == {k \in KeyStates : ~k.w /\ ~k.s}

\* Ball.reset: <<speed cos(angle), speed sin(angle)>> in hundredths, for the
\* angles 0, pi/4 and -pi/4 of uniform(-pi/4, pi/4)
Angles == {<<100 * BALL_SPEED, 0>>, <<354, 354>>, <<354, -354>>}
Signs == {-1, 1}                          \* random.choice([-1, 1])

TimeWarpValues == {50, 100, 150}          \* random.uniform(0.5, 1.5), hundredths
RealityBendValues == {-20, 0, 20}         \* random.uniform(-0.2, 0.2), hundredths

\* PowerUp(): a position of randint(100, WIDTH - 100) x randint(100, HEIGHT - 100)
\* and a type.  Of the two positions, a ball served up and to the left at
\* time factor 1 touches the first in its tenth frame only, and a ball that
\* Ball.reset has just put at the centre touches the second in that frame only.
PowerUpSpots == {<<334, 267>>, <<390, 307>>}
NewPowerUps == {[x |-> p[1], y |-> p[2], type |-> t] : p \in PowerUpSpots, t \in PowerUpTypes}

\* InterdimensionalRift(): x, y, radius of randint(30, 50), destination of
\* randint(1, 3).  The rift is around the screen centre.
NewRifts == {[x |-> WIDTH \div 2, y |-> HEIGHT \div 2, radius |-> 30, destination |-> d] :
                d \in 1..3}

-----------------------------------------------------------------------------
(* Paddle *)

\* Paddle.__init__
NewPaddle(x, y) ==
    [x |-> x, y |-> y, charge |-> 0, combo_meter |-> 0, combo_multiplier |-> 10]

\* Paddle.update for the player (is_ai false), lines 137-145; charge in halves
PlayerMove(p, keys) ==
    LET y1 == IF keys.w /\ p.y > 0 THEN p.y - PLAYER_SPEED ELSE p.y
        y2 == IF keys.s /\ y1 + PADDLE_HEIGHT < HEIGHT THEN y1 + PLAYER_SPEED ELSE y1
        c  == IF keys.shift THEN Min(p.charge + 2, 2 * MAX_CHARGE)
              ELSE Max(p.charge - 1, 0)
    IN  [p EXCEPT !.y = y2, !.charge = c]

\* Paddle._ai_move
AiMove(p, b) ==
    LET pcy == CenterOf(p.x, p.y, PADDLE_WIDTH, PADDLE_HEIGHT)[2]
        bcy == CenterOf(b.x, b.y, BALL_SIZE, BALL_SIZE)[2]
    IN  IF pcy < bcy /\ p.y + PADDLE_HEIGHT < HEIGHT THEN [p EXCEPT !.y = p.y + AI_SPEED]
        ELSE IF pcy > bcy /\ p.y > 0 THEN [p EXCEPT !.y = p.y - AI_SPEED]
        ELSE p

-----------------------------------------------------------------------------
(* Ball *)

\* Ball.reset that forgets line 185
BallResetKeepsDimension(b, a, sgn) ==
    [b EXCEPT !.x = WIDTH \div 2 - BALL_SIZE \div 2,
              !.y = HEIGHT \div 2 - BALL_SIZE \div 2,
              !.dx = a[1] * sgn,
              !.dy = a[2]]

\* Ball.reset
BallReset(b, a, sgn) ==
    [b EXCEPT !.x = WIDTH \div 2 - BALL_SIZE \div 2,
              !.y = HEIGHT \div 2 - BALL_SIZE \div 2,
              !.dx = a[1] * sgn,
              !.dy = a[2],
              !.dimension = 0]

\* Ball.__init__: the rect, then reset()
NewBall(a, sgn) ==
    BallReset([x |-> WIDTH \div 2 - BALL_SIZE \div 2, y |-> HEIGHT \div 2 - BALL_SIZE \div 2,
               dx |-> 0, dy |-> 0, dimension |-> 0], a, sgn)

\* lines 188-189: rect.x += dx * time_factor; the Rect takes the int of the sum
BallMove(b, tf) ==
    [b EXCEPT !.x = Trunc(10000 * b.x + b.dx * tf, 10000),
              !.y = Trunc(10000 * b.y + b.dy * tf, 10000)]

\* the trail with pop(0) for pop(): beyond 20 it drops the newest point
TrailPushDropsNewest(tr, c) ==
    LET t1 == <<c>> \o tr
    IN  IF Len(t1) > TRAIL_LEN THEN SubSeq(t1, 2, Len(t1)) ELSE t1

\* lines 190-192: insert at the front, drop the last beyond 20
TrailPush(tr, c) ==
    LET t1 == <<c>> \o tr
    IN  IF Len(t1) > TRAIL_LEN THEN SubSeq(t1, 1, Len(t1) - 1) ELSE t1

BallHitsPaddle(b, p) ==
    CollideRect(b.x, b.y, BALL_SIZE, BALL_SIZE, p.x, p.y, PADDLE_WIDTH, PADDLE_HEIGHT)

\* line 302
BallAtWall(b) == b.y <= 0 \/ b.y + BALL_SIZE >= HEIGHT

\* lines 308-309, multiplier in tenths
PaddleHit(p) ==
    [p EXCEPT !.combo_meter = p.combo_meter + 1,
              !.combo_multiplier = 10 + ((p.combo_meter + 1) \div COMBO_STEP) * 2]

\* line 307: dx *= -1.1
Bounce(dx) == -Trunc(dx * 11, 10)

\* line 313
BallOut(b) == b.x <= 0 \/ b.x + BALL_SIZE >= WIDTH

-----------------------------------------------------------------------------
(* Game *)

\* Game.__init__ and the first test of `while running`
InitGame(angles, signs) ==
    /\ pc = "events"
    /\ running = TRUE
    /\ ticks = 0
    /\ player_paddle = NewPaddle(PLAYER_X, HEIGHT \div 2 - PADDLE_HEIGHT \div 2)
    /\ ai_paddle = NewPaddle(WIDTH - AI_MARGIN - PADDLE_WIDTH,
                             HEIGHT \div 2 - PADDLE_HEIGHT \div 2)
    /\ \E a \in angles, sgn \in signs : ball = NewBall(a, sgn)
    /\ trail = <<>>
    /\ powerups = <<>>
    /\ rifts = <<>>
    /\ score = <<0, 0>>
    /\ time_factor = 100
    /\ reality_shift = 0

\* the event loop with a break out of `while running` on QUIT
PollEventsBreak(quits, frames) ==
    /\ pc = "events"
    /\ ticks < frames
    /\ \E quit \in quits :
         /\ running' = IF quit THEN FALSE ELSE running
         /\ pc' = IF quit THEN "quit" ELSE "colors"
    /\ UNCHANGED <<startupVars, ticks, colorVars, gameVars>>

\* lines 275-277: the events of this iteration, with or without a QUIT
PollEvents(quits, frames) ==
    /\ pc = "events"
    /\ ticks < frames
    /\ \E quit \in quits : running' = IF quit THEN FALSE ELSE running
    /\ pc' = "colors"
    /\ UNCHANGED <<startupVars, ticks, colorVars, gameVars>>

\* line 287: COLOR_MANAGER.update()
ColorStep ==
    /\ pc = "colors"
    /\ LET u == ColorManagerUpdate(colors, shift)
       IN  /\ shift' = u.shift
           /\ colors' = u.colors
    /\ pc' = "player"
    /\ UNCHANGED <<startupVars, running, ticks, gameVars>>

\* line 290: self.player_paddle.update(self.ball)
PlayerUpdate(keyset) ==
    /\ pc = "player"
    /\ \E keys \in keyset : player_paddle' = PlayerMove(player_paddle, keys)
    /\ pc' = "ai"
    /\ UNCHANGED <<startupVars, running, ticks, colorVars, ai_paddle, ball, trail,
                   powerups, rifts, score, time_factor, reality_shift>>

\* line 291: self.ai_paddle.update(self.ball)
AiUpdate ==
    /\ pc = "ai"
    /\ ai_paddle' = AiMove(ai_paddle, ball)
    /\ pc' = "ball"
    /\ UNCHANGED <<startupVars, running, ticks, colorVars, player_paddle, ball, trail,
                   powerups, rifts, score, time_factor, reality_shift>>

\* line 292: self.ball.update(self.time_factor)
BallUpdate ==
    /\ pc = "ball"
    /\ ball' = BallMove(ball, time_factor)
    /\ trail' = TrailPush(trail, CenterOf(ball'.x, ball'.y, BALL_SIZE, BALL_SIZE))
    /\ pc' = "collisions"
    /\ UNCHANGED <<startupVars, running, ticks, colorVars, player_paddle, ai_paddle,
                   powerups, rifts, score, time_factor, reality_shift>>

\* the wall test without its first disjunct
ReflectAtBottomOnly(b) == IF b.y + BALL_SIZE >= HEIGHT THEN [b EXCEPT !.dy = -b.dy] ELSE b

\* lines 302-303
ReflectAtWall(b) == IF BallAtWall(b) THEN [b EXCEPT !.dy = -b.dy] ELSE b

\* Game._handle_collisions
HandleCollisions ==
    /\ pc = "collisions"
    /\ LET hitP == BallHitsPaddle(ball, player_paddle)
           hitA == BallHitsPaddle(ball, ai_paddle)
           b1   == ReflectAtWall(ball)
           dx1  == IF hitP THEN Bounce(b1.dx) ELSE b1.dx
           dx2  == IF hitA THEN Bounce(dx1) ELSE dx1
       IN  /\ ball' = [b1 EXCEPT !.dx = dx2]
           /\ player_paddle' = IF hitP THEN PaddleHit(player_paddle) ELSE player_paddle
           /\ ai_paddle' = IF hitA THEN PaddleHit(ai_paddle) ELSE ai_paddle
    /\ pc' = "game_state"
    /\ UNCHANGED <<startupVars, running, ticks, colorVars, trail, powerups, rifts, score,
                   time_factor, reality_shift>>

\* a point that counts for both sides
AwardBoth(sc, b) == <<sc[1] + 1, sc[2] + 1>>

\* lines 314-317
Award(sc, b) == IF b.x <= 0 THEN <<sc[1], sc[2] + 1>> ELSE <<sc[1] + 1, sc[2]>>

\* Game._update_game_state
UpdateGameState(angles, signs) ==
    /\ pc = "game_state"
    /\ IF BallOut(ball)
          THEN /\ score' = Award(score, ball)
               /\ \E a \in angles, sgn \in signs : ball' = BallReset(ball, a, sgn)
               /\ player_paddle' = [player_paddle EXCEPT !.combo_meter = 0]
               /\ ai_paddle' = [ai_paddle EXCEPT !.combo_meter = 0]
          ELSE UNCHANGED <<score, ball, player_paddle, ai_paddle>>
    /\ pc' = "powerups"
    /\ UNCHANGED <<startupVars, running, ticks, colorVars, trail, powerups, rifts,
                   time_factor, reality_shift>>

\* the power-ups of ps the ball's rectangle overlaps
Touched(ps, b) ==
    {i \in 1..Len(ps) :
        CollideRect(b.x, b.y, BALL_SIZE, BALL_SIZE, ps[i].x, ps[i].y, POWERUP_SIZE, POWERUP_SIZE)}

\* ps without the elements at the positions in drop
Without(ps, drop) ==
    LET keep[i \in 0..Len(ps)] ==
            IF i = 0 THEN <<>>
            ELSE IF i \in drop THEN keep[i - 1] ELSE Append(keep[i - 1], ps[i])
    IN  keep[Len(ps)]

\* _apply_powerup without the tests of powerup.type
ApplyAnyType(ps, hit, tf, rs, tfv, rsv) ==
    [time_factor   |-> IF hit # {} THEN tfv ELSE tf,
     reality_shift |-> IF hit # {} THEN rsv ELSE rs]

\* Game._apply_powerup over the power-ups touched in one pass: the value each
\* modifier has after the last of them (tfv, rsv: what random.uniform gave)
ApplyPowerups(ps, hit, tf, rs, tfv, rsv) ==
    [time_factor   |-> IF \E i \in hit : ps[i].type = "Time Warp" THEN tfv ELSE tf,
     reality_shift |-> IF \E i \in hit : ps[i].type = "Reality Bend" THEN rsv ELSE rs]

\* Game._handle_powerups, lines 323-324; spawns: the PowerUp() that random
\* may add
SpawnPowerup(spawns) ==
    /\ pc = "powerups"
    /\ \/ powerups' = powerups
       \/ /\ Len(powerups) < MaxPowerups
          /\ \E n \in spawns : powerups' = Append(powerups, n)
    /\ pc' = "pickup"
    /\ UNCHANGED <<startupVars, running, ticks, colorVars, player_paddle, ai_paddle, ball,
                   trail, rifts, score, time_factor, reality_shift>>

\* Game._handle_powerups, lines 326-331: the loop over the power-ups
CollectPowerups ==
    /\ pc = "pickup"
    /\ LET hit == Touched(powerups, ball)
       IN  /\ powerups' = Without(powerups, hit)
           /\ \E tfv \in TimeWarpValues, rsv \in RealityBendValues :
                LET m == ApplyPowerups(powerups, hit, time_factor, reality_shift, tfv, rsv)
                IN  /\ time_factor' = m.time_factor
                    /\ reality_shift' = m.reality_shift
    /\ pc' = "rifts"
    /\ UNCHANGED <<startupVars, running, ticks, colorVars, player_paddle, ai_paddle, ball,
                   trail, rifts, score>>

\* line 346: math.hypot(dx, dy) < radius, on integers
InRift(b, r) ==
    LET c == CenterOf(b.x, b.y, BALL_SIZE, BALL_SIZE)
    IN  (c[1] - r.x) * (c[1] - r.x) + (c[2] - r.y) * (c[2] - r.y) < r.radius * r.radius

\* lines 344-347: the dimension after the loop over the rifts
RiftDimension(rs, b) ==
    LET dim[i \in 0..Len(rs)] ==
            IF i = 0 THEN b.dimension
            ELSE IF InRift(b, rs[i]) THEN rs[i].destination ELSE dim[i - 1]
    IN  dim[Len(rs)]

\* Game._handle_rifts; spawns: the InterdimensionalRift() that random may add
HandleRifts(spawns) ==
    /\ pc = "rifts"
    /\ \E rs \in {rifts} \cup
                 {Append(rifts, n) : n \in IF Len(rifts) < MaxRifts THEN spawns ELSE {}} :
         /\ rifts' = rs
         /\ ball' = [ball EXCEPT !.dimension = RiftDimension(rs, ball)]
    /\ pc' = "draw"
    /\ UNCHANGED <<startupVars, running, ticks, colorVars, player_paddle, ai_paddle, trail,
                   powerups, score, time_factor, reality_shift>>

\* line 280: self.draw()
Draw ==
    /\ pc = "draw"
    /\ pc' = "flip"
    /\ UNCHANGED <<startupVars, running, ticks, colorVars, gameVars>>

\* line 281: pygame.display.flip()
Flip ==
    /\ pc = "flip"
    /\ pc' = "tick"
    /\ UNCHANGED <<startupVars, running, ticks, colorVars, gameVars>>

\* line 282: self.clock.tick(FPS), and the test of `while running` after it
Tick ==
    /\ pc = "tick"
    /\ ticks' = ticks + 1
    /\ pc' = IF running THEN "events" ELSE "quit"
    /\ UNCHANGED <<startupVars, running, colorVars, gameVars>>

\* line 284: pygame.quit()
PygameQuit ==
    /\ pc = "quit"
    /\ pc' = "done"
    /\ UNCHANGED <<startupVars, running, ticks, colorVars, gameVars>>

-----------------------------------------------------------------------------
(* Specifications *)

\* the state of the startup code once a run with no settings file has
\* reached game.run()
Started ==
    /\ boot = "game_loop"
    /\ cfgFile = [kind |-> "missing", content |-> EmptyConfig]
    /\ CONFIG = EmptyConfig
    /\ consts = Defaults
    /\ logged = {"Config file not found. Using default settings."}

\* Color.random() for each element: channels of randint(100, 255)
Palette == {<<255, 100, 100>>, <<100, 255, 178>>, <<120, 140, 250>>}
SomeColors == [e \in ElementSet |->
                 CASE e = "Fire" -> <<255, 100, 100>>
                   [] e = "Water" -> <<120, 140, 250>>
                   [] e = "Earth" -> <<100, 255, 178>>
                   [] e = "Air" -> <<200, 230, 255>>
                   [] e = "Void" -> <<128, 128, 128>>
                   [] OTHER -> <<255, 220, 100>>]

\* the game before Game() has run
Unbuilt ==
    /\ pc = "unstarted"
    /\ running = FALSE
    /\ ticks = 0
    /\ player_paddle = <<>>
    /\ ai_paddle = <<>>
    /\ ball = <<>>
    /\ trail = <<>>
    /\ powerups = <<>>
    /\ rifts = <<>>
    /\ score = <<0, 0>>
    /\ time_factor = 100
    /\ reality_shift = 0

\* Spec: the game with the player at the W and S keys; no power-up or rift
\* appears and no QUIT arrives
Init ==
    /\ Started
    /\ shift = 0
    /\ colors = SomeColors
    /\ InitGame(Angles, Signs)

Next ==
    \/ PollEvents({FALSE}, MaxFrames)
    \/ ColorStep
    \/ PlayerUpdate(MoveKeys)
    \/ AiUpdate
    \/ BallUpdate
    \/ HandleCollisions
    \/ UpdateGameState(Angles, Signs)
    \/ SpawnPowerup({})
    \/ CollectPowerups
    \/ HandleRifts({})
    \/ Draw
    \/ Flip
    \/ Tick

Spec == Init /\ [][Next]_vars

\* SpecRally: long rallies.  The player touches no key, every serve is
\* horizontal, rifts appear; the ball speeds up at each paddle until it
\* passes one.
Level == {<<100 * BALL_SPEED, 0>>}

InitRally ==
    /\ Started
    /\ shift = 0
    /\ colors = SomeColors
    /\ InitGame(Level, Signs)

NextRally ==
    \/ PollEvents({FALSE}, MaxRallyFrames)
    \/ ColorStep
    \/ PlayerUpdate(NoKeys)
    \/ AiUpdate
    \/ BallUpdate
    \/ HandleCollisions
    \/ UpdateGameState(Level, Signs)
    \/ SpawnPowerup({})
    \/ CollectPowerups
    \/ HandleRifts(NewRifts)
    \/ Draw
    \/ Flip
    \/ Tick

SpecRally == InitRally /\ [][NextRally]_vars

\* SpecPickups: power-ups and rifts appear; the player touches no key and
\* every serve goes up and to the left
Upward == {<<354, -354>>}

InitPickups ==
    /\ Started
    /\ shift = 0
    /\ colors = SomeColors
    /\ InitGame(Upward, {-1})

NextPickups ==
    \/ PollEvents({FALSE}, MaxPickupFrames)
    \/ ColorStep
    \/ PlayerUpdate(NoKeys)
    \/ AiUpdate
    \/ BallUpdate
    \/ HandleCollisions
    \/ UpdateGameState(Upward, {-1})
    \/ SpawnPowerup(NewPowerUps)
    \/ CollectPowerups
    \/ HandleRifts({r \in NewRifts : r.destination = 2})
    \/ Draw
    \/ Flip
    \/ Tick

SpecPickups == InitPickups /\ [][NextPickups]_vars

\* SpecRun: the loop of Game.run with QUIT events; the player holds or
\* releases the charge key
NextRun ==
    \/ PollEvents(BOOLEAN, MaxRunFrames)
    \/ ColorStep
    \/ PlayerUpdate(ShiftKeys)
    \/ AiUpdate
    \/ BallUpdate
    \/ HandleCollisions
    \/ UpdateGameState(Level, Signs)
    \/ SpawnPowerup({})
    \/ CollectPowerups
    \/ HandleRifts({})
    \/ Draw
    \/ Flip
    \/ Tick
    \/ PygameQuit

\* Every step of the loop returns, so a step that can be taken is taken.
SpecRun == InitRally /\ [][NextRun]_vars /\ WF_vars(NextRun)

\* SpecColor: DynamicColorManager on its own, from any colours of the palette
InitColor ==
    /\ Started
    /\ Unbuilt
    /\ shift = 0
    /\ colors \in [ElementSet -> Palette]

ColorUpdate ==
    /\ shift < MaxUpdates
    /\ LET u == ColorManagerUpdate(colors, shift)
       IN  /\ shift' = u.shift
           /\ colors' = u.colors
    /\ UNCHANGED <<startupVars, pc, running, ticks, gameVars>>

SpecColor == InitColor /\ [][ColorUpdate]_vars

\* SpecStartup: the module-level code up to the entry into the game loop,
\* for every settings file
InitStartup ==
    /\ boot = "load_config"
    /\ cfgFile \in ConfigFiles
    /\ CONFIG = EmptyConfig
    /\ consts = EmptyConfig
    /\ logged = {}
    /\ Unbuilt
    /\ shift = 0
    /\ colors = <<>>

NextStartup == LoadConfig \/ AssignConstants \/ StartGame

SpecStartup == InitStartup /\ [][NextStartup]_vars

-----------------------------------------------------------------------------
(* Properties *)

BallCenter(b) == CenterOf(b.x, b.y, BALL_SIZE, BALL_SIZE)
ScreenCenter == <<WIDTH \div 2, HEIGHT \div 2>>
LeftOut(b) == b.x <= 0
RightOut(b) == b.x + BALL_SIZE >= WIDTH
Total(sc) == sc[1] + sc[2]

\* C1: in the scoring pass, a ball whose left edge is at or beyond x = 0
\* gives exactly one point to the right side and none to the left, a ball
\* whose right edge is at or beyond x = WIDTH gives exactly one point to the
\* left side and none to the right; in both cases the pass ends with the ball
\* centred on the screen, in dimension 0, and both combo meters at 0.
C1_ScoringPass ==
    [][(pc = "game_state" /\ (LeftOut(ball) \/ RightOut(ball))) =>
          /\ LeftOut(ball) => score' = <<score[1], score[2] + 1>>
          /\ RightOut(ball) => score' = <<score[1] + 1, score[2]>>
          /\ BallCenter(ball') = ScreenCenter
          /\ ball'.dimension = 0
          /\ player_paddle'.combo_meter = 0
          /\ ai_paddle'.combo_meter = 0]_vars

\* the scoring pass has just reset a ball that left on the right, after an
\* earlier point on the left; the last trail point is where the ball was
C1_Witness ==
    /\ pc = "powerups"
    /\ trail # <<>>
    /\ Head(trail)[1] - BALL_SIZE \div 2 + BALL_SIZE >= WIDTH
    /\ score[1] >= 1
    /\ score[2] >= 1
    /\ BallCenter(ball) = ScreenCenter
    /\ rifts # <<>>

\* C2: the scores are naturals that never decrease; only the scoring pass
\* changes them, once per frame and by one point in all, and it does so
\* exactly when the ball is out on the left or on the right after the
\* collision pass.
C2_ScoreSteps ==
    [][/\ score' \in Nat \X Nat
       /\ score'[1] >= score[1]
       /\ score'[2] >= score[2]
       /\ Total(score') <= Total(score) + 1
       /\ score' # score => pc = "game_state" /\ (LeftOut(ball) \/ RightOut(ball))
       /\ (pc = "game_state" /\ (LeftOut(ball) \/ RightOut(ball))) =>
             Total(score') = Total(score) + 1]_vars

\* a point has just been given for a ball out on the left
C2_Witness ==
    /\ pc = "powerups"
    /\ trail # <<>>
    /\ Head(trail)[1] - BALL_SIZE \div 2 <= 0
    /\ score[2] >= 1

\* C3: at the end of every frame each paddle's combo_multiplier is
\* 1 + floor(combo_meter / 3) * 0.2 (in tenths: 10 + 2 floor(m / 3)).
C3_MultiplierFollowsMeter ==
    pc \in {"draw", "flip", "tick", "events"} =>
        /\ player_paddle.combo_multiplier = 10 + (player_paddle.combo_meter \div 3) * 2
        /\ ai_paddle.combo_multiplier = 10 + (ai_paddle.combo_meter \div 3) * 2

\* C4: both paddles are within the screen vertically in every state.
C4_PaddlesOnScreen ==
    /\ 0 <= player_paddle.y /\ player_paddle.y + PADDLE_HEIGHT <= HEIGHT
    /\ 0 <= ai_paddle.y /\ ai_paddle.y + PADDLE_HEIGHT <= HEIGHT

C6_TrailNewestFirst ==
    [][/\ Len(trail') <= TRAIL_LEN
       /\ pc = "ball" =>
             /\ Len(trail') = Min(Len(trail) + 1, TRAIL_LEN)
             /\ trail'[1] = BallCenter(ball')
             /\ \A i \in 1..(Len(trail') - 1) : trail'[i + 1] = trail[i]
       /\ pc # "ball" => trail' = trail]_vars

\* a full trail, more than 20 updates in, after a point was scored and the
\* ball reset away from its last recorded centre
C6_Witness ==
    /\ Len(trail) = TRAIL_LEN
    /\ ticks > TRAIL_LEN
    /\ Total(score) >= 1
    /\ pc = "powerups"
    /\ Head(trail) # BallCenter(ball)

TouchedType(t) ==
    \E i \in 1..Len(powerups) :
        /\ powerups[i].type = t
        /\ CollideRect(ball.x, ball.y, BALL_SIZE, BALL_SIZE,
                       powerups[i].x, powerups[i].y, POWERUP_SIZE, POWERUP_SIZE)

\* C7: time_factor changes only in the power-up loop of a frame in which the
\* ball's rectangle overlaps a Time Warp, reality_shift only there and with a
\* Reality Bend; time_factor is always within [0.5, 1.5] and reality_shift
\* within [-0.2, 0.2].
C7_ModifiersOnlyByPowerups ==
    [][/\ time_factor' # time_factor => pc = "pickup" /\ TouchedType("Time Warp")
       /\ reality_shift' # reality_shift => pc = "pickup" /\ TouchedType("Reality Bend")
       /\ 50 <= time_factor /\ time_factor <= 150
       /\ 50 <= time_factor' /\ time_factor' <= 150
       /\ -20 <= reality_shift' /\ reality_shift' <= 20]_vars

\* time_factor has been changed by a Time Warp, a point has been scored and
\* the ball served again since, a rift is open, and the ball now overlaps a
\* power-up of a type without effect
C7_Witness ==
    /\ pc = "pickup"
    /\ time_factor # 100
    /\ Total(score) >= 1
    /\ rifts # <<>>
    /\ TouchedType("Multi-ball")

\* C8: with a settings file that is missing, cannot be opened or cannot be
\* parsed, startup does not terminate: the condition is logged, CONFIG is
\* empty and every constant has its default.
Unreadable == cfgFile.kind \in {"missing", "unopenable", "unparsable"}

C8_UnreadableRecovered ==
    Unreadable =>
        /\ boot # "terminated"
        /\ boot # "load_config" => CONFIG = EmptyConfig /\ logged # {}
        /\ boot \in {"main", "game_loop"} => consts = Defaults

\* the steps of one iteration of the loop of Game.run, in order
FrameOrder == <<"events", "colors", "player", "ai", "ball", "collisions", "game_state",
                "powerups", "pickup", "rifts", "draw", "flip", "tick">>

\* C9: running changes only where the events are read, and only to FALSE;
\* every iteration, the one that saw the QUIT included, goes through all its
\* steps in order; after the frame pacing the loop starts another iteration
\* if running still holds and goes to pygame.quit() if not; pygame.quit() is
\* never reached while running holds, and is reached once it does not.
C9_QuitHandling ==
    /\ [][/\ running' # running => pc = "events" /\ ~running'
          /\ \A i \in 1..(Len(FrameOrder) - 1) : pc = FrameOrder[i] => pc' = FrameOrder[i + 1]
          /\ pc = "tick" => pc' = IF running THEN "events" ELSE "quit"
          /\ pc' = "events" => running
          /\ pc' \in {"quit", "done"} => ~running]_vars
    /\ (~running ~> pc = "done")

\* the loop has ended on a QUIT seen in a later iteration than the first
C9_Witness ==
    /\ pc = "done"
    /\ ~running
    /\ ticks >= 2

\* the hue of a colour in units of 1/100000 turn (0 for a grey)
Hue(c) ==
    LET d == Max3(c) - Min3(c)
    IN  IF d = 0 THEN 0 ELSE (100000 * HueSixths(c)) \div (6 * d)

\* the distance of two hues around the circle
HueDistance(h1, h2) ==
    LET a == (h1 - h2) % 100000
    IN  Min(a, 100000 - a)

\* C10: each DynamicColorManager.update advances the hue of every stored
\* colour by 0.01 turn (to within half of that, for the rounding of the
\* channels), so that N updates advance it by 0.01 N.
C10_HueAdvancesByFixedStep ==
    [][shift' # shift =>
          \A e \in ElementSet : HueDistance(Hue(colors'[e]), Hue(colors[e]) + 1000) <= 500]_vars

=============================================================================
